---- MODULE Spec2Model ----
(***************************************************************************)
(* Model of the notification-controller event server (handleEvent and its *)
(* helpers), of Receiver.GetWebhookPath and of Provider.GetTimeout.        *)
(*                                                                         *)
(* Go strings are sequences of one-character strings, so that prefix,      *)
(* concatenation, substring and case folding are computed, not assumed.    *)
(***************************************************************************)
EXTENDS Integers, Sequences, FiniteSets, TLC

\* ------------------------------------------------------------------------
\* Bounds of the model
\* ------------------------------------------------------------------------
MaxStrLen == 1
MaxMeta == 2
MaxMsgLen == 2
MaxPatLen == 2
MaxExcl == 2
MaxSources == 2
MaxAlerts == 2

\* ------------------------------------------------------------------------
\* String helpers (package strings)
\* ------------------------------------------------------------------------
Nil == "nil"

\* strings.HasPrefix(s, p)
HasPrefix(s, p) == Len(p) <= Len(s) /\ SubSeq(s, 1, Len(p)) = p

\* strings.TrimPrefix(s, p)
TrimPrefix(s, p) == IF HasPrefix(s, p) THEN SubSeq(s, Len(p) + 1, Len(s)) ELSE s

\* strings.Contains(s, sub)
Contains(s, sub) ==
    \E i \in 1..(Len(s) - Len(sub) + 1) : SubSeq(s, i, i + Len(sub) - 1) = sub

\* Simple case folding of one character (unicode.SimpleFold restricted to the
\* letters the model uses).
Fold(c) ==
    CASE c = "G" -> "g"
      [] c = "C" -> "c"
      [] OTHER -> c

\* strings.EqualFold(a, b)
EqualFold(a, b) ==
    /\ Len(a) = Len(b)
    /\ \A i \in 1..Len(a) : Fold(a[i]) = Fold(b[i])

\* inList(l, i): some element of l equals i under case folding.
inList(l, i) == \E n \in 1..Len(l) : EqualFold(l[n], i)

\* All sequences over alphabet S of length at most n.
RECURSIVE SeqsUpTo(_, _)
SeqsUpTo(S, n) ==
    IF n = 0 THEN {<<>>}
    ELSE LET shorter == SeqsUpTo(S, n - 1)
         IN  shorter \cup {Append(s, c) : s \in shorter, c \in S}

\* ------------------------------------------------------------------------
\* Receiver.GetWebhookPath
\* ------------------------------------------------------------------------
ReceiverWebhookPath == <<"/", "h", "o", "o", "k", "/">>

PathAlphabet == {"a", "b"}
PathStrings == SeqsUpTo(PathAlphabet, MaxStrLen)
Receivers == [token : PathStrings, name : PathStrings, namespace : PathStrings]

\* The byte string handed to sha256.Sum256.
HashInput(token, name, namespace) == token \o name \o namespace

\* sha256.Sum256 as a collision-free digest: the digest determines its input.
Sum256(bytes) == [sha256 |-> bytes]

GetWebhookPathNoNamespace(token, name, namespace) ==
    [prefix |-> ReceiverWebhookPath, digest |-> Sum256(HashInput(token, name, <<>>))]

GetWebhookPath(token, name, namespace) ==
    [prefix |-> ReceiverWebhookPath, digest |-> Sum256(HashInput(token, name, namespace))]

\* ------------------------------------------------------------------------
\* cleanupMetadata
\* ------------------------------------------------------------------------
MetaChecksumKey == <<"c", "h", "e", "c", "k", "s", "u", "m">>

Slash == <<"/">>

\* Involved-object groups of the events.
Groups == {<<>>, <<"g">>}

KeyPrefixes ==
    {<<>>, <<"g">>, <<"g", "/">>, <<"g", "/", "g", "/">>, <<"h", "/">>,
     <<"/">>, <<"G", "/">>}
KeySuffixes ==
    {<<"r">>, MetaChecksumKey, <<"C">> \o Tail(MetaChecksumKey), <<"g", "r">>}
MetaKeys == {p \o s : p \in KeyPrefixes, s \in KeySuffixes}
MetaValues == {"v1", "v2"}

\* The subsets of S with at most n elements.
RECURSIVE SubsetsUpTo(_, _)
SubsetsUpTo(S, n) ==
    IF n = 0 THEN {{}}
    ELSE LET smaller == SubsetsUpTo(S, n - 1)
         IN  smaller \cup {T \cup {x} : T \in smaller, x \in S}

\* Metadata maps: functions from a set of at most MaxMeta keys to values.
MetaMaps == UNION {[K -> MetaValues] : K \in SubsetsUpTo(MetaKeys, MaxMeta)}

\* excludeList of cleanupMetadata.
ExcludeList(group) == <<group \o Slash \o MetaChecksumKey>>

\* The condition under which cleanupMetadata keeps a key.
KeepsKeyExact(group, key) ==
    HasPrefix(key, group \o Slash) /\ key # group \o Slash \o MetaChecksumKey

KeepsKeySlash(group, key) ==
    HasPrefix(key, group \o Slash) /\ ~inList(ExcludeList(group), key)

KeepsKey(group, key) ==
    HasPrefix(key, group) /\ ~inList(ExcludeList(group), key)

\* The key under which a kept entry is stored.
NewKey(group, key) == TrimPrefix(key, group \o Slash)

\* cleanupMetadata: the maps event.Metadata can be after the call.  Two kept
\* keys can be stored under the same new key; the map is ranged over in an
\* unspecified order, so either value can be the one that stays.
cleanupMetadata(group, meta) ==
    LET kept == {k \in DOMAIN meta : KeepsKey(group, k)}
        newKeys == {NewKey(group, k) : k \in kept}
    IN  {m \in [newKeys -> MetaValues] :
            \A nk \in newKeys : \E k \in kept : NewKey(group, k) = nk /\ meta[k] = m[nk]}

\* ------------------------------------------------------------------------
\* messageIsExcluded
\* ------------------------------------------------------------------------
\* Regular expressions are written over literals, "." (any character) and
\* "[" (which opens a character class that is never closed).
MsgAlphabet == {"a", "b"}
PatAlphabet == {"a", ".", "["}
Messages == SeqsUpTo(MsgAlphabet, MaxMsgLen)
Patterns == SeqsUpTo(PatAlphabet, MaxPatLen)

\* regexp.Compile(exp) returns no error.
Compiles(exp) == \A i \in 1..Len(exp) : exp[i] # "["

\* (*Regexp).Match: the expression matches somewhere in msg.
RegexpMatch(exp, msg) ==
    \E i \in 1..(Len(msg) - Len(exp) + 1) :
        \A j \in 1..Len(exp) : exp[j] = "." \/ exp[j] = msg[i + j - 1]

RECURSIVE messageIsExcludedAbort(_, _)
messageIsExcludedAbort(msg, exclusionList) ==
    IF Len(exclusionList) = 0 THEN FALSE
    ELSE IF Compiles(Head(exclusionList))
         THEN IF RegexpMatch(Head(exclusionList), msg) THEN TRUE
              ELSE messageIsExcludedAbort(msg, Tail(exclusionList))
         ELSE FALSE

RECURSIVE messageIsExcluded(_, _)
messageIsExcluded(msg, exclusionList) ==
    IF Len(exclusionList) = 0 THEN FALSE
    ELSE IF Compiles(Head(exclusionList))
         THEN IF RegexpMatch(Head(exclusionList), msg) THEN TRUE
              ELSE messageIsExcluded(msg, Tail(exclusionList))
         ELSE messageIsExcluded(msg, Tail(exclusionList))

\* ------------------------------------------------------------------------
\* Matching an event against the Alerts
\* ------------------------------------------------------------------------
EventSeverityInfo == "info"
EventSeverityError == "error"
EventSeverityTrace == "trace"

\* Labels are pairs <<key, value>>; "bad key" is not a valid label key.
ValidLabel(l) == l[1] # "bad key"

\* metav1.LabelSelectorAsSelector on a selector with MatchLabels only: a
\* selector (the set of required labels), or a nil selector and an error.
LabelSelectorAsSelector(matchLabels) ==
    IF \A l \in matchLabels : ValidLabel(l)
    THEN [sel |-> matchLabels, err |-> FALSE]
    ELSE [sel |-> {}, err |-> TRUE]

\* The outcomes of a call that returns a bool or panics.
True == "true"
False == "false"
Panic == "panic"

Bool(b) == IF b THEN True ELSE False

\* eventMatchesAlert.  fetchOk tells whether kubeClient.Get of the involved
\* object succeeds, liveLabels are the labels of that object in the store.
\* When the selector cannot be built, sel is nil and sel.Matches panics.
eventMatchesAlertNoSeverity(event, source, severity, fetchOk, liveLabels) ==
    IF event.namespace # source.namespace \/ event.kind # source.kind THEN False
    ELSE IF source.name # "*" /\ source.name # event.name THEN False
    ELSE IF source.matchLabels.nil THEN True
    ELSE LET labels == IF fetchOk THEN liveLabels ELSE {}
             r == LabelSelectorAsSelector(source.matchLabels.labels)
         IN  IF r.err THEN Panic ELSE Bool(r.sel \subseteq labels)

eventMatchesAlert(event, source, severity, fetchOk, liveLabels) ==
    IF event.namespace # source.namespace \/ event.kind # source.kind THEN False
    ELSE IF event.severity # severity /\ severity # EventSeverityInfo THEN False
    ELSE IF source.name # "*" /\ source.name # event.name THEN False
    ELSE IF source.matchLabels.nil THEN True
    ELSE LET labels == IF fetchOk THEN liveLabels ELSE {}
             r == LabelSelectorAsSelector(source.matchLabels.labels)
         IN  IF r.err THEN Panic ELSE Bool(r.sel \subseteq labels)

\* The loop of eventMatchesAlertSources from source i on.  fetch[i] tells
\* whether the object fetch made for source i succeeds.
RECURSIVE eventMatchesAlertSourcesFrom(_, _, _, _, _)
eventMatchesAlertSourcesFrom(event, alert, fetch, liveLabels, i) ==
    IF i > Len(alert.sources) THEN False
    ELSE LET src == alert.sources[i]
             source == IF src.namespace = ""
                       THEN [src EXCEPT !.namespace = alert.namespace]
                       ELSE src
             m == eventMatchesAlert(event, source, alert.severity, fetch[i], liveLabels)
         IN  IF m = True THEN True
             ELSE IF m = Panic THEN Panic
             ELSE eventMatchesAlertSourcesFrom(event, alert, fetch, liveLabels, i + 1)

eventMatchesAlertSources(event, alert, fetch, liveLabels) ==
    eventMatchesAlertSourcesFrom(event, alert, fetch, liveLabels, 1)

\* The body of the loop of filterAlertsForEvent for one alert: "skip",
\* "keep" or "panic".
FilterOneNoSuspend(event, alert, fetch, liveLabels) ==
    LET m == eventMatchesAlertSources(event, alert, fetch, liveLabels)
    IN  IF m = Panic THEN "panic"
        ELSE IF m = False THEN "skip"
        ELSE IF messageIsExcluded(event.message, alert.exclusionList) THEN "skip"
        ELSE "keep"

FilterOne(event, alert, fetch, liveLabels) ==
    IF alert.suspend THEN "skip"
    ELSE LET m == eventMatchesAlertSources(event, alert, fetch, liveLabels)
         IN  IF m = Panic THEN "panic"
             ELSE IF m = False THEN "skip"
             ELSE IF messageIsExcluded(event.message, alert.exclusionList) THEN "skip"
             ELSE "keep"

\* filterAlertsForEvent from alert i on, results being the alerts kept so
\* far; fetch[i][j] is the outcome of the object fetch for source j of alert i.
RECURSIVE filterAlertsFrom(_, _, _, _, _, _)
filterAlertsFrom(alerts, event, fetch, liveLabels, i, results) ==
    IF i > Len(alerts) THEN [panic |-> FALSE, alerts |-> results]
    ELSE LET f == FilterOne(event, alerts[i], fetch[i], liveLabels)
         IN  IF f = "panic" THEN [panic |-> TRUE, alerts |-> <<>>]
             ELSE filterAlertsFrom(alerts, event, fetch, liveLabels, i + 1,
                                   IF f = "keep" THEN Append(results, alerts[i])
                                   ELSE results)

filterAlertsForEvent(alerts, event, fetch, liveLabels) ==
    filterAlertsFrom(alerts, event, fetch, liveLabels, 1, <<>>)

\* ------------------------------------------------------------------------
\* Events, Alerts and the store
\* ------------------------------------------------------------------------
\* Labels of the involved object in the store.
LiveLabels == {<<"app", "x">>}

\* A matchLabels map: nil, or a set of labels.
NilLabels == [nil |-> TRUE, labels |-> {}]
Labels(ls) == [nil |-> FALSE, labels |-> ls]

MatchLabelChoices ==
    {NilLabels, Labels({}), Labels({<<"app", "x">>}), Labels({<<"app", "y">>}),
     Labels({<<"bad key", "x">>})}

Source(kind, name, namespace, matchLabels) ==
    [kind |-> kind, name |-> name, namespace |-> namespace, matchLabels |-> matchLabels]

\* Event sources: every kind, name and namespace without matchLabels, and
\* every matchLabels on a source of the event's kind.
SourcePool ==
    {Source(k, n, ns, NilLabels) : k \in {"K1", "K2"}, n \in {"*", "o1", "o2"}, ns \in {"", "n1", "n2"}}
    \cup {Source("K1", "*", "", ml) : ml \in MatchLabelChoices}

Event(severity, message, group, metadata) ==
    [kind |-> "K1", namespace |-> "n1", name |-> "o1", severity |-> severity,
     message |-> message, group |-> group, metadata |-> metadata]

Alert(name, namespace, suspend, severity, sources, exclusionList, summary, providerRef) ==
    [name |-> name, namespace |-> namespace, suspend |-> suspend,
     severity |-> severity, sources |-> sources, exclusionList |-> exclusionList,
     summary |-> summary, providerRef |-> providerRef]

\* The outcomes of the object fetches made for the sources of an alert: a
\* fetch is made only for a source with matchLabels.
FetchChoices(alert) ==
    {f \in [1..Len(alert.sources) -> BOOLEAN] :
        \A j \in 1..Len(alert.sources) : alert.sources[j].matchLabels.nil => f[j]}

RECURSIVE FetchChoicesList(_)
FetchChoicesList(alerts) ==
    IF alerts = <<>> THEN {<<>>}
    ELSE {<<f>> \o r : f \in FetchChoices(Head(alerts)), r \in FetchChoicesList(Tail(alerts))}

SrcWild == Source("K1", "*", "n1", NilLabels)
SrcNamed == Source("K1", "o1", "", NilLabels)
SrcOtherKind == Source("K2", "*", "n1", NilLabels)
SrcLabelGood == Source("K1", "o1", "", Labels({<<"app", "x">>}))
SrcBadLabels == Source("K1", "*", "", Labels({<<"bad key", "x">>}))

\* Alerts of the filter runs.
FilterAlertPool ==
    {Alert("a", "n1", su, sev, srcs, ex, "", "p1") :
        su \in BOOLEAN, sev \in {EventSeverityInfo, EventSeverityError},
        srcs \in {<<SrcWild>>, <<SrcOtherKind, SrcLabelGood>>, <<SrcBadLabels>>},
        ex \in {<<>>, <<(<<"[">>), (<<"a">>)>>}}

\* ------------------------------------------------------------------------
\* Providers, secrets and notifiers
\* ------------------------------------------------------------------------
\* An optional field: a Go nil pointer or a missing map key has set = FALSE.
None == [set |-> FALSE, val |-> <<>>]
Some(v) == [set |-> TRUE, val |-> v]

NoTimeout == [set |-> FALSE, duration |-> 0]
Timeout(d) == [set |-> TRUE, duration |-> d]

\* Seconds.
DefaultTimeout == 15

GetTimeoutDefaultOnly(provider) == DefaultTimeout

\* Provider.GetTimeout
GetTimeout(provider) ==
    IF provider.timeout.set THEN provider.timeout.duration ELSE DefaultTimeout

Provider(suspend, address, secretRef, certSecretRef, timeout, type) ==
    [suspend |-> suspend, address |-> address, secretRef |-> secretRef,
     certSecretRef |-> certSecretRef, timeout |-> timeout, type |-> type]

\* Secret.Data: the keys createNotifier reads.  addressOk, proxyOk, headersOk
\* and caOk tell whether url.Parse, yaml.Unmarshal and AppendCertsFromPEM
\* accept the value.
Secret(address, addressOk, token, proxyOk, headersOk, caFile, caOk) ==
    [address |-> address, addressOk |-> addressOk, token |-> token,
     proxyOk |-> proxyOk, headersOk |-> headersOk, caFile |-> caFile, caOk |-> caOk]

TokenTK == <<"t", "k">>
TokenTT == <<"t", "t">>

\* The Secrets of the store, by <<namespace, name>>.
SecretStore ==
    (<<"n1", "s1">> :> Secret(None, TRUE, Some(TokenTK), TRUE, TRUE, None, TRUE))
    @@ (<<"n2", "s1">> :> Secret(Some(<<"u">>), TRUE, Some(TokenTT), TRUE, TRUE, None, TRUE))
    @@ (<<"n1", "c1">> :> Secret(None, TRUE, None, TRUE, TRUE, None, TRUE))

\* The Providers of the store, by <<namespace, name>>.
ProviderStore ==
    (<<"n1", "p1">> :> Provider(FALSE, <<"u">>, Some("s1"), None, NoTimeout, "slack"))
    @@ (<<"n1", "p2">> :> Provider(FALSE, <<"u">>, None, None, Timeout(30), "cdevents"))
    @@ (<<"n1", "p3">> :> Provider(TRUE, <<"u">>, None, None, NoTimeout, "slack"))
    @@ (<<"n1", "p4">> :> Provider(FALSE, <<>>, None, None, NoTimeout, "slack"))
    @@ (<<"n1", "p5">> :> Provider(FALSE, <<"u">>, None, Some("c1"), NoTimeout, "slack"))
    @@ (<<"n2", "p1">> :> Provider(FALSE, <<>>, Some("s1"), None, Timeout(5), "slack"))

\* The provider types the notifier factory knows.
NotifierTypes == {"slack", "generic", "cdevents"}

NotifierError(msg) == [err |-> msg, sender |-> None, token |-> <<>>]

\* createNotifier.  secretOk and certOk tell whether the reads of the
\* secrets succeed.
createNotifier(namespace, provider, secretOk, certOk) ==
    LET secretKey == <<namespace, provider.secretRef.val>>
        certKey == <<namespace, provider.certSecretRef.val>>
        secretRead == provider.secretRef.set /\ secretOk /\ secretKey \in DOMAIN SecretStore
        secret == SecretStore[secretKey]
        webhook == IF secretRead /\ secret.address.set THEN secret.address.val
                   ELSE provider.address
        token == IF secretRead /\ secret.token.set THEN secret.token.val ELSE <<>>
    IN  IF provider.secretRef.set /\ ~secretRead
        THEN NotifierError("failed to read secret")
        ELSE IF secretRead /\ secret.address.set /\ ~secret.addressOk
        THEN NotifierError("invalid address in secret")
        ELSE IF secretRead /\ ~secret.proxyOk
        THEN NotifierError("invalid proxy in secret")
        ELSE IF secretRead /\ ~secret.headersOk
        THEN NotifierError("failed to read headers from secret")
        ELSE IF provider.certSecretRef.set /\ ~(certOk /\ certKey \in DOMAIN SecretStore)
        THEN NotifierError("failed to read cert secret")
        ELSE IF provider.certSecretRef.set /\ ~SecretStore[certKey].caFile.set
        THEN NotifierError("failed to read secret key caFile")
        ELSE IF provider.certSecretRef.set /\ ~SecretStore[certKey].caOk
        THEN NotifierError("could not append to cert pool")
        ELSE IF webhook = <<>>
        THEN NotifierError("provider has no address")
        ELSE IF provider.type \notin NotifierTypes
        THEN NotifierError("failed to initialize notifier")
        ELSE [err |-> "", sender |-> Some([type |-> provider.type, url |-> webhook]),
              token |-> token]

SummaryKey == <<"s", "u", "m", "m", "a", "r", "y">>

\* m[key] = value on a Go map.
MapSet(m, key, value) ==
    [k \in DOMAIN m \cup {key} |-> IF k = key THEN value ELSE m[k]]

\* What a read of the store made under a context returns: the object, an
\* error of the store, or the error of a context that is done.  A read that
\* was not made is NotRead.
NotRead == "none"

ReadOutcomes(ctx) == IF ctx = "live" THEN {"ok", "err"} ELSE {"ok", "err", "ctx"}

NoReads == [provider |-> NotRead, secret |-> NotRead, cert |-> NotRead]

\* The errors createNotifier returns before it reads the cert secret.
SecretErrors ==
    {"failed to read secret", "invalid address in secret", "invalid proxy in secret",
     "failed to read headers from secret"}

\* The map a notification's Metadata points to: the handler's event keeps its
\* map at HandlerRef, event.DeepCopy() makes a map of its own.
HandlerRef == "handler"

ShallowCopyRef(alert) == HandlerRef

DeepCopyRef(alert) == alert.name

ParamsError(msg, reads) ==
    [kind |-> "error", err |-> msg, sender |-> None, notification |-> None,
     token |-> <<>>, timeout |-> 0, reads |-> reads, metaRef |-> HandlerRef]

ParamsSkip(reads) ==
    [kind |-> "skip", err |-> "", sender |-> None, notification |-> None,
     token |-> <<>>, timeout |-> 0, reads |-> reads, metaRef |-> HandlerRef]

CrossNamespaceDeniedNever(noCrossNamespaceRefs, event, alert) == FALSE

\* The comparison of the event's namespace with the alert's.
CrossNamespaceDenied(noCrossNamespaceRefs, event, alert) ==
    noCrossNamespaceRefs /\ event.namespace # alert.namespace

\* getNotificationParams.  providerRead, secretRead and certRead are what the
\* reads of the Provider and of its secrets return when they are made; the
\* result tells which reads were made.
getNotificationParams(noCrossNamespaceRefs, event, alert, providerRead, secretRead, certRead) ==
    LET providerName == <<alert.namespace, alert.providerRef>>
    IN  IF CrossNamespaceDenied(noCrossNamespaceRefs, event, alert)
        THEN ParamsError("access denied to cross-namespace sources", NoReads)
        ELSE IF ~(providerRead = "ok" /\ providerName \in DOMAIN ProviderStore)
        THEN ParamsError("failed to read provider",
                         [NoReads EXCEPT !.provider =
                             IF providerRead = "ok" THEN "err" ELSE providerRead])
        ELSE LET provider == ProviderStore[providerName]
                 n == createNotifier(alert.namespace, provider,
                                     secretRead = "ok", certRead = "ok")
                 secretKey == <<alert.namespace, provider.secretRef.val>>
                 certKey == <<alert.namespace, provider.certSecretRef.val>>
                 reads == [provider |-> "ok",
                           secret |-> IF ~provider.secretRef.set THEN NotRead
                                      ELSE IF secretRead = "ok" /\ secretKey \notin DOMAIN SecretStore
                                      THEN "err" ELSE secretRead,
                           cert |-> IF ~provider.certSecretRef.set \/ n.err \in SecretErrors
                                    THEN NotRead
                                    ELSE IF certRead = "ok" /\ certKey \notin DOMAIN SecretStore
                                    THEN "err" ELSE certRead]
             IN  IF provider.suspend THEN ParamsSkip([NoReads EXCEPT !.provider = "ok"])
                 ELSE IF n.err # "" THEN ParamsError(n.err, reads)
                 ELSE [kind |-> "send", err |-> "", sender |-> n.sender,
                       notification |->
                           Some(IF alert.summary # ""
                                THEN [event EXCEPT !.metadata =
                                         MapSet(event.metadata, SummaryKey, alert.summary)]
                                ELSE event),
                       token |-> n.token, timeout |-> GetTimeout(provider),
                       reads |-> reads, metaRef |-> DeepCopyRef(alert)]

\* ------------------------------------------------------------------------
\* Token masking (masktoken.MaskTokenFromString)
\* ------------------------------------------------------------------------
Mask == <<"*", "*", "*", "*", "*">>
MaskError == <<"m", "a", "s", "k", "e", "r", "r">>

\* strings.ReplaceAll(s, old, new) for a non-empty old: leftmost occurrences,
\* not overlapping.
RECURSIVE ReplaceAll(_, _, _)
ReplaceAll(s, old, new) ==
    IF Len(s) < Len(old) THEN s
    ELSE IF HasPrefix(s, old)
         THEN new \o ReplaceAll(SubSeq(s, Len(old) + 1, Len(s)), old, new)
         ELSE <<Head(s)>> \o ReplaceAll(Tail(s), old, new)

\* MaskTokenFromString(log, token): the masked text, or an error when the
\* masking fails (ok = FALSE).
MaskTokenFromString(log, token, ok) ==
    IF token = <<>> THEN [text |-> log, err |-> FALSE]
    ELSE IF ~ok THEN [text |-> <<>>, err |-> TRUE]
    ELSE [text |-> ReplaceAll(log, token, Mask), err |-> FALSE]

\* The error text a notifier's Post returns for a given token: it quotes the
\* token twice.
PostErrors(token) == {<<"e">> \o token \o token \o <<"t">>}

LoggedErrorRaw(postErr, token, maskOk) == postErr

\* The error handed to the logger by a delivery task whose Post failed.
LoggedError(postErr, token, maskOk) ==
    LET m == MaskTokenFromString(postErr, token, maskOk)
    IN  IF m.err THEN MaskError ELSE m.text

\* ------------------------------------------------------------------------
\* The CDEvents notifier
\* ------------------------------------------------------------------------
UpperLetters == <<"A", "B", "C", "D", "E", "F", "G", "H", "I", "J", "K", "L", "M", "N", "O", "P", "Q", "R", "S", "T", "U", "V", "W", "X", "Y", "Z">>
LowerLetters == <<"a", "b", "c", "d", "e", "f", "g", "h", "i", "j", "k", "l", "m", "n", "o", "p", "q", "r", "s", "t", "u", "v", "w", "x", "y", "z">>

\* strings.ToLower and strings.ToUpper on the letters above.
ToLower(s) ==
    [i \in 1..Len(s) |->
        IF \E n \in 1..Len(UpperLetters) : UpperLetters[n] = s[i]
        THEN LowerLetters[CHOOSE n \in 1..Len(UpperLetters) : UpperLetters[n] = s[i]]
        ELSE s[i]]

ToUpper(s) ==
    [i \in 1..Len(s) |->
        IF \E n \in 1..Len(LowerLetters) : LowerLetters[n] = s[i]
        THEN UpperLetters[CHOOSE n \in 1..Len(LowerLetters) : LowerLetters[n] = s[i]]
        ELSE s[i]]

\* The reasons the switch of Post names.
ReasonInstallSucceeded == <<"i", "n", "s", "t", "a", "l", "l", "s", "u", "c", "c", "e", "e", "d", "e", "d">>
ReasonUpgradeSucceeded == <<"u", "p", "g", "r", "a", "d", "e", "s", "u", "c", "c", "e", "e", "d", "e", "d">>
ReasonUpgradeFailed == <<"u", "p", "g", "r", "a", "d", "e", "f", "a", "i", "l", "e", "d">>
ReasonTestSucceeded == <<"t", "e", "s", "t", "s", "u", "c", "c", "e", "e", "d", "e", "d">>
ReasonTestFailed == <<"t", "e", "s", "t", "f", "a", "i", "l", "e", "d">>
ReasonRollbackSucceeded == <<"r", "o", "l", "l", "b", "a", "c", "k", "s", "u", "c", "c", "e", "e", "d", "e", "d">>
ReasonRollbackFailed == <<"r", "o", "l", "l", "b", "a", "c", "k", "f", "a", "i", "l", "e", "d">>
ReasonDriftDetected == <<"d", "r", "i", "f", "t", "d", "e", "t", "e", "c", "t", "e", "d">>
ReasonReconciliationSucceeded == <<"r", "e", "c", "o", "n", "c", "i", "l", "i", "a", "t", "i", "o", "n", "s", "u", "c", "c", "e", "e", "d", "e", "d">>

KnownReasons ==
    {ReasonInstallSucceeded,
     ReasonUpgradeSucceeded,
     ReasonUpgradeFailed,
     ReasonTestSucceeded,
     ReasonTestFailed,
     ReasonRollbackSucceeded,
     ReasonRollbackFailed,
     ReasonDriftDetected,
     ReasonReconciliationSucceeded}

\* Reasons the switch does not name.
OtherReasons == {<<>>, <<"p", "r", "o", "g", "r", "e", "s", "s", "i", "n", "g">>, <<"t", "e", "s", "t", "f", "a", "i", "l">>}

\* A reason as events carry it: in lower case, in upper case, or with the
\* capitals of the Go constant's name.
Capitals(r) ==
    [i \in 1..Len(r) |->
        IF i = 1 \/ (SubSeq(r, i, Len(r)) \in
                           {<<"s", "u", "c", "c", "e", "e", "d", "e", "d">>, <<"f", "a", "i", "l", "e", "d">>, <<"d", "e", "t", "e", "c", "t", "e", "d">>})
        THEN ToUpper(<<r[i]>>)[1] ELSE r[i]]

EventReasons ==
    UNION {{r, ToUpper(r), Capitals(r)} : r \in KnownReasons \cup OtherReasons}

CDEvent(type, outcome) == [type |-> type, outcome |-> outcome]

\* The switch of Post on the Reason as it is written, without ToLower.
PayloadOf(reason) ==
    CASE reason = ReasonInstallSucceeded -> CDEvent("EnvironmentModified", "")
      [] reason = ReasonUpgradeSucceeded -> CDEvent("TaskRunFinished", "Success")
      [] reason = ReasonUpgradeFailed -> CDEvent("TaskRunFinished", "Failure")
      [] reason = ReasonTestSucceeded -> CDEvent("TestCaseRunFinished", "Success")
      [] reason = ReasonTestFailed -> CDEvent("TestCaseRunFinished", "Success")
      [] reason = ReasonRollbackSucceeded -> CDEvent("TaskRunFinished", "Success")
      [] reason = ReasonRollbackFailed -> CDEvent("TaskRunFinished", "Failure")
      [] reason = ReasonDriftDetected -> CDEvent("TaskRunFinished", "Failure")
      [] reason = ReasonReconciliationSucceeded -> CDEvent("ServiceDeployed", "")
      [] OTHER -> CDEvent("IncidentDetected", "")

NewCDEventCaseSensitive(reason) == PayloadOf(reason)

\* The CDEvent that Post builds for a Reason: the switch on
\* strings.ToLower(event.Reason).
NewCDEvent(reason) == PayloadOf(ToLower(reason))

\* The switch of the second copy of Post, which differs in the case of
\* reconciliationsucceeded.
NewCDEventPipeline(reason) ==
    IF ToLower(reason) = ReasonReconciliationSucceeded
    THEN CDEvent("PipelineRunFinished", "Success")
    ELSE PayloadOf(ToLower(reason))

\* The two copies of Post in the sources.
PostCopies == {"cdevents.go", "part_000"}

\* What postMessage returns: nil or an error.
PostMessageResults == {None, Some(<<"e">>)}

\* The end of Post: err is what postMessage returned, err1 is declared and
\* never assigned.
CDEventsPostReturn(err) ==
    LET err1 == None
    IN  IF err.set /\ err1.set
        THEN Some(<<"p", "o", "s", "t", "M", "e", "s", "s", "a", "g", "e", " ",
                    "f", "a", "i", "l", "e", "d", ":", " ">> \o err.val)
        ELSE None

\* CDEvents.Post: the payload handed to postMessage and the error returned.
CDEventsPost(copy, event, postMessageResult) ==
    LET cd == IF copy = "cdevents.go" THEN NewCDEvent(event.reason)
              ELSE NewCDEventPipeline(event.reason)
    IN  [payload |-> [type |-> cd.type, outcome |-> cd.outcome,
                      source |-> <<event.name, ".", event.kind>>,
                      subjectId |-> event.uid],
         err |-> CDEventsPostReturn(postMessageResult)]

\* ------------------------------------------------------------------------
\* Delivery tasks and contexts
\* ------------------------------------------------------------------------
\* The context of a delivery task: its parent and its timeout.
TaskContextOfHandler(timeout) == [parent |-> "handler", timeout |-> timeout]

TaskContext(timeout) == [parent |-> "background", timeout |-> timeout]

\* The goroutine started by dispatchNotification.
NewTask(alert, params) ==
    [alert |-> alert.name, provider |-> <<alert.namespace, alert.providerRef>>,
     sender |-> params.sender.val, event |-> params.notification.val,
     token |-> params.token, ctx |-> TaskContext(params.timeout),
     pc |-> "spawned", cancelledBy |-> "none", posts |-> 0,
     failed |-> FALSE, postErr |-> None, logged |-> None,
     metaRef |-> params.metaRef, posted |-> None]

\* Cancelling the handler's context cancels the contexts derived from it.
CancelChildren(ts) ==
    [i \in DOMAIN ts |->
        IF ts[i].ctx.parent = "handler" /\ ts[i].pc = "posting" /\ ts[i].cancelledBy = "none"
        THEN [ts[i] EXCEPT !.cancelledBy = "parent"]
        ELSE ts[i]]

\* ------------------------------------------------------------------------
\* Requests and store contents of the handler runs
\* ------------------------------------------------------------------------
MetaRevision == (<<"g", "/", "r">> :> "v1")

\* Request bodies: one that cannot be read, one that is not a JSON event, and
\* a decodable event with metadata of its group.
UnreadableBody == [kind |-> "unreadable", event |-> Event("info", <<>>, <<>>, [k \in {} |-> "v1"])]
UndecodableBody == [kind |-> "undecodable", event |-> Event("info", <<>>, <<>>, [k \in {} |-> "v1"])]
EventBody(e) == [kind |-> "event", event |-> e]

RequestBodies ==
    {UnreadableBody, UndecodableBody,
     EventBody(Event("info", <<"a">>, <<"g">>, MetaRevision))}

\* Alerts of the store in the handler runs.
HandlerAlertPool ==
    {Alert("a1", "n1", FALSE, "info", <<SrcWild>>, <<>>, "", "p1"),
     Alert("a2", "n1", FALSE, "info", <<SrcNamed, SrcWild>>, <<(<<"[">>), (<<"b">>)>>, "S2", "p2"),
     Alert("a3", "n2", FALSE, "info", <<SrcWild>>, <<>>, "", "p1"),
     Alert("a4", "n1", TRUE, "info", <<SrcWild>>, <<>>, "", "p1"),
     Alert("a5", "n1", FALSE, "info", <<SrcWild>>, <<>>, "S5", "p3"),
     Alert("a6", "n1", FALSE, "info", <<SrcLabelGood>>, <<>>, "", "p4"),
     Alert("a7", "n1", FALSE, "info", <<SrcBadLabels>>, <<>>, "", "p1"),
     Alert("a8", "n1", FALSE, "info", <<SrcWild>>, <<(<<"a">>)>>, "", "p1"),
     Alert("a9", "n1", FALSE, "info", <<SrcWild>>, <<>>, "", "p9")}

\* Lists of at most n distinct elements of S.
RECURSIVE DistinctSeqsUpTo(_, _)
DistinctSeqsUpTo(S, n) ==
    IF n = 0 THEN {<<>>}
    ELSE LET shorter == DistinctSeqsUpTo(S, n - 1)
             longer == {Append(q, x) : q \in shorter, x \in S}
         IN  shorter \cup
             {q \in longer : \A i, j \in 1..Len(q) : i # j => q[i] # q[j]}

StatusBadRequest == 400
StatusAccepted == 202

VARIABLES
    wpA, wpB, wpPathA, wpPathB, wpStage,
    cmGroup, cmInput, cmOnce, cmMeta, cmCount,
    xMsg, xList, xResult,
    sEvent, sAlert, sFetch, sResult,
    fEvent, fAlerts, fFetch, fResult, fDone,
    hBody, hFlag, hStore, hPc, hEvent, hFetch, hAlerts, hIdx, hStatus, hLog,
    reqCancelled, hCtx, tasks, hDisp, heap, hCancel,
    cdCopy, cdEvent, cdPostMessage, cdResult, cdDone

pathVars == <<wpA, wpB, wpPathA, wpPathB, wpStage>>
cleanupVars == <<cmGroup, cmInput, cmOnce, cmMeta, cmCount>>
excludeVars == <<xMsg, xList, xResult>>
sourcesVars == <<sEvent, sAlert, sFetch, sResult>>
filterVars == <<fEvent, fAlerts, fFetch, fResult, fDone>>
handlerVars == <<hBody, hFlag, hStore, hPc, hEvent, hFetch, hAlerts, hIdx, hStatus,
                 hLog, reqCancelled, hCtx, tasks, hDisp, heap, hCancel>>
cdVars == <<cdCopy, cdEvent, cdPostMessage, cdResult, cdDone>>
vars == <<pathVars, cleanupVars, excludeVars, sourcesVars, filterVars, handlerVars,
          cdVars>>

EmptyMap == [k \in {} |-> "v1"]

NoCancel == [set |-> FALSE, idx |-> 0, spawned |-> 0]

NoEvent == Event(EventSeverityInfo, <<>>, <<>>, EmptyMap)
NoResult == [panic |-> FALSE, alerts |-> <<>>]
NoAlert == Alert("a", "n1", FALSE, EventSeverityInfo, <<>>, <<>>, "", "p1")

ExcludeIdle ==
    /\ xMsg = <<>>
    /\ xList = <<>>
    /\ xResult = Nil

SourcesIdle ==
    /\ sEvent = NoEvent
    /\ sAlert = NoAlert
    /\ sFetch = <<>>
    /\ sResult = Nil

FilterIdle ==
    /\ fEvent = NoEvent
    /\ fAlerts = <<>>
    /\ fFetch = <<>>
    /\ fResult = NoResult
    /\ fDone = FALSE

HandlerIdle ==
    /\ hBody = UnreadableBody
    /\ hFlag = FALSE
    /\ hStore = <<>>
    /\ hPc = "idle"
    /\ hEvent = NoEvent
    /\ hFetch = <<>>
    /\ hAlerts = <<>>
    /\ hIdx = 1
    /\ hStatus = <<>>
    /\ hLog = <<>>
    /\ reqCancelled = FALSE
    /\ hCtx = "none"
    /\ tasks = <<>>
    /\ hDisp = <<>>
    /\ heap = (HandlerRef :> EmptyMap)
    /\ hCancel = NoCancel

\* An event as Post reads it.
ReasonEvent(reason) == [reason |-> reason, name |-> "o1", kind |-> "K1", uid |-> "u1"]

NoPostResult ==
    [payload |-> [type |-> "", outcome |-> "", source |-> <<>>, subjectId |-> ""],
     err |-> None]

CDEventsIdle ==
    /\ cdCopy = "cdevents.go"
    /\ cdEvent = ReasonEvent(<<>>)
    /\ cdPostMessage = None
    /\ cdResult = NoPostResult
    /\ cdDone = FALSE

PathIdle ==
    /\ wpA = [token |-> <<>>, name |-> <<>>, namespace |-> <<>>]
    /\ wpB = wpA
    /\ wpPathA = Nil
    /\ wpPathB = Nil
    /\ wpStage = 0

CleanupIdle ==
    /\ cmGroup = <<>>
    /\ cmInput = EmptyMap
    /\ cmOnce = EmptyMap
    /\ cmMeta = EmptyMap
    /\ cmCount = 0

\* ---- webhook path of a Receiver, before and after its inputs change ----
InitPath ==
    /\ wpA \in Receivers
    /\ wpB = wpA
    /\ wpPathA = Nil
    /\ wpPathB = Nil
    /\ wpStage = 0
    /\ CleanupIdle
    /\ ExcludeIdle
    /\ SourcesIdle
    /\ FilterIdle
    /\ HandlerIdle
    /\ CDEventsIdle

\* The reconciler computes the path of the Receiver.
ComputeWebhookPath ==
    /\ wpStage = 0
    /\ wpPathA' = GetWebhookPath(wpA.token, wpA.name, wpA.namespace)
    /\ wpStage' = 1
    /\ UNCHANGED <<wpA, wpB, wpPathB, cleanupVars, excludeVars, sourcesVars, filterVars, handlerVars, cdVars>>

\* The token, the name or the namespace change and the path is computed again.
RecomputeWebhookPath ==
    /\ wpStage = 1
    /\ \E r \in Receivers :
          /\ r # wpA
          /\ wpB' = r
          /\ wpPathB' = GetWebhookPath(r.token, r.name, r.namespace)
    /\ wpStage' = 2
    /\ UNCHANGED <<wpA, wpPathA, cleanupVars, excludeVars, sourcesVars, filterVars, handlerVars, cdVars>>

NextPath == ComputeWebhookPath \/ RecomputeWebhookPath

SpecPath == InitPath /\ [][NextPath]_vars

\* ---- cleanupMetadata applied to an event, once and again ----
InitCleanup ==
    /\ cmGroup \in Groups
    /\ cmInput \in MetaMaps
    /\ cmMeta = cmInput
    /\ cmOnce = EmptyMap
    /\ cmCount = 0
    /\ PathIdle
    /\ ExcludeIdle
    /\ SourcesIdle
    /\ FilterIdle
    /\ HandlerIdle
    /\ CDEventsIdle

CleanupFirst ==
    /\ cmCount = 0
    /\ cmMeta' \in cleanupMetadata(cmGroup, cmMeta)
    /\ cmOnce' = cmMeta'
    /\ cmCount' = 1
    /\ UNCHANGED <<cmGroup, cmInput, pathVars, excludeVars, sourcesVars, filterVars, handlerVars, cdVars>>

CleanupAgain ==
    /\ cmCount = 1
    /\ cmMeta' \in cleanupMetadata(cmGroup, cmMeta)
    /\ cmCount' = 2
    /\ UNCHANGED <<cmGroup, cmInput, cmOnce, pathVars, excludeVars, sourcesVars, filterVars, handlerVars, cdVars>>

NextCleanup == CleanupFirst \/ CleanupAgain

SpecCleanup == InitCleanup /\ [][NextCleanup]_vars

\* ---- messageIsExcluded on a message and an exclusion list ----
InitExclude ==
    /\ xMsg \in Messages
    /\ xList \in SeqsUpTo(Patterns, MaxExcl)
    /\ xResult = Nil
    /\ PathIdle
    /\ CleanupIdle
    /\ SourcesIdle
    /\ FilterIdle
    /\ HandlerIdle
    /\ CDEventsIdle

EvalExclusion ==
    /\ xResult = Nil
    /\ xResult' = Bool(messageIsExcluded(xMsg, xList))
    /\ UNCHANGED <<xMsg, xList, pathVars, cleanupVars, sourcesVars, filterVars, handlerVars, cdVars>>

NextExclude == EvalExclusion

SpecExclude == InitExclude /\ [][NextExclude]_vars

\* ---- eventMatchesAlertSources on an event and one alert ----
InitSources ==
    /\ sEvent \in {Event(sev, <<>>, <<>>, EmptyMap) :
                      sev \in {EventSeverityInfo, EventSeverityError, EventSeverityTrace}}
    /\ sAlert \in {Alert("a", ns, FALSE, sev, srcs, <<>>, "", "p1") :
                      ns \in {"n1", "n2"},
                      sev \in {EventSeverityInfo, EventSeverityError},
                      srcs \in SeqsUpTo(SourcePool, MaxSources)}
    /\ sFetch = <<>>
    /\ sResult = Nil
    /\ PathIdle
    /\ CleanupIdle
    /\ ExcludeIdle
    /\ FilterIdle
    /\ HandlerIdle
    /\ CDEventsIdle

MatchSources ==
    /\ sResult = Nil
    /\ \E fetch \in FetchChoices(sAlert) :
          /\ sFetch' = fetch
          /\ sResult' = eventMatchesAlertSources(sEvent, sAlert, fetch, LiveLabels)
    /\ UNCHANGED <<sEvent, sAlert, pathVars, cleanupVars, excludeVars, filterVars, handlerVars, cdVars>>

NextSources == MatchSources

SpecSources == InitSources /\ [][NextSources]_vars

\* ---- filterAlertsForEvent on an event and a list of alerts ----
InitFilter ==
    /\ fEvent \in {Event(sev, msg, <<>>, EmptyMap) :
                      sev \in {EventSeverityInfo, EventSeverityError},
                      msg \in {<<"a">>, <<"b">>}}
    /\ fAlerts \in SeqsUpTo(FilterAlertPool, MaxAlerts)
    /\ fFetch = <<>>
    /\ fResult = NoResult
    /\ fDone = FALSE
    /\ PathIdle
    /\ CleanupIdle
    /\ ExcludeIdle
    /\ SourcesIdle
    /\ HandlerIdle
    /\ CDEventsIdle

FilterAlerts ==
    /\ ~fDone
    /\ fDone' = TRUE
    /\ \E fetch \in FetchChoicesList(fAlerts) :
          /\ fFetch' = fetch
          /\ fResult' = filterAlertsForEvent(fAlerts, fEvent, fetch, LiveLabels)
    /\ UNCHANGED <<fEvent, fAlerts, pathVars, cleanupVars, excludeVars, sourcesVars, handlerVars, cdVars>>

NextFilter == FilterAlerts

SpecFilter == InitFilter /\ [][NextFilter]_vars

\* ---- one call of CDEvents.Post ----
InitCDEvents ==
    /\ cdCopy \in PostCopies
    /\ cdEvent \in {ReasonEvent(r) : r \in EventReasons}
    /\ cdPostMessage \in PostMessageResults
    /\ cdResult = NoPostResult
    /\ cdDone = FALSE
    /\ PathIdle
    /\ CleanupIdle
    /\ ExcludeIdle
    /\ SourcesIdle
    /\ FilterIdle
    /\ HandlerIdle

Post ==
    /\ ~cdDone
    /\ cdResult' = CDEventsPost(cdCopy, cdEvent, cdPostMessage)
    /\ cdDone' = TRUE
    /\ UNCHANGED <<cdCopy, cdEvent, cdPostMessage, pathVars, cleanupVars, excludeVars,
                   sourcesVars, filterVars, handlerVars>>

NextCDEvents == Post

SpecCDEvents == InitCDEvents /\ [][NextCDEvents]_vars

\* ---- one request to the ingress handler and its delivery tasks ----
Init ==
    /\ hBody \in RequestBodies
    /\ hFlag \in BOOLEAN
    /\ hStore \in DistinctSeqsUpTo(HandlerAlertPool, MaxAlerts)
    /\ hPc = "start"
    /\ hEvent = NoEvent
    /\ hFetch = <<>>
    /\ hAlerts = <<>>
    /\ hIdx = 1
    /\ hStatus = <<>>
    /\ hLog = <<>>
    /\ reqCancelled = FALSE
    /\ hCtx = "none"
    /\ tasks = <<>>
    /\ hDisp = <<>>
    /\ heap = (HandlerRef :> EmptyMap)
    /\ hCancel = NoCancel
    /\ PathIdle
    /\ CleanupIdle
    /\ ExcludeIdle
    /\ SourcesIdle
    /\ FilterIdle
    /\ CDEventsIdle

otherVars == <<pathVars, cleanupVars, excludeVars, sourcesVars, filterVars, cdVars>>

\* The handler returns: the deferred cancel runs and the server cancels the
\* request's context.
HandlerReturns ==
    /\ hCtx' = IF hCtx = "live" THEN "cancelled" ELSE hCtx
    /\ reqCancelled' = TRUE
    /\ tasks' = CancelChildren(tasks)

\* handleEvent up to the dispatch loop: read and decode the body, clean the
\* metadata, list and filter the alerts.  A panic ends the handler without a
\* response (net/http recovers it and closes the connection).
HandleRequest ==
    /\ hPc = "start"
    /\ \/ /\ hBody.kind \in {"unreadable", "undecodable"}
          /\ hStatus' = Append(hStatus, StatusBadRequest)
          /\ hLog' = Append(hLog, [alert |-> "", err |-> IF hBody.kind = "unreadable"
                                                      THEN "reading the request body failed"
                                                      ELSE "decoding the request body failed"])
          /\ hPc' = "done"
          /\ reqCancelled' = TRUE
          /\ UNCHANGED <<hEvent, hFetch, hAlerts, hCtx, tasks, heap>>
       \/ /\ hBody.kind = "event"
          /\ \E meta \in cleanupMetadata(hBody.event.group, hBody.event.metadata),
                listOk \in BOOLEAN :
                \E fetch \in IF listOk THEN FetchChoicesList(hStore) ELSE {<<>>} :
                   LET event == [hBody.event EXCEPT !.metadata = meta]
                       res == IF listOk
                              THEN filterAlertsForEvent(hStore, event, fetch, LiveLabels)
                              ELSE [panic |-> FALSE, alerts |-> <<>>]
                   IN  /\ hEvent' = event
                       /\ heap' = (HandlerRef :> meta)
                       /\ hFetch' = fetch
                       /\ hAlerts' = res.alerts
                       /\ hLog' = IF listOk THEN hLog
                                  ELSE Append(hLog, [alert |-> "", err |-> "failed listing alerts"])
                       /\ IF res.panic
                          THEN /\ hPc' = "panicked"
                               /\ hStatus' = hStatus
                               /\ hCtx' = "cancelled"
                               /\ reqCancelled' = TRUE
                          ELSE IF Len(res.alerts) = 0
                          THEN /\ hPc' = "done"
                               /\ hStatus' = Append(hStatus, StatusAccepted)
                               /\ hCtx' = "cancelled"
                               /\ reqCancelled' = TRUE
                          ELSE /\ hPc' = "dispatch"
                               /\ hStatus' = hStatus
                               /\ hCtx' = IF reqCancelled THEN "cancelled" ELSE "live"
                               /\ reqCancelled' = reqCancelled
          /\ UNCHANGED tasks
    /\ UNCHANGED <<hBody, hFlag, hStore, hIdx, hDisp, hCancel, otherVars>>

\* What the reads of the secrets of an alert's Provider can return; a
\* Provider without the reference has no such read.
SecretReads(alert, ctx) ==
    LET providerName == <<alert.namespace, alert.providerRef>>
    IN  IF providerName \in DOMAIN ProviderStore /\ ProviderStore[providerName].secretRef.set
        THEN ReadOutcomes(ctx) ELSE {NotRead}

CertReads(alert, ctx) ==
    LET providerName == <<alert.namespace, alert.providerRef>>
    IN  IF providerName \in DOMAIN ProviderStore /\ ProviderStore[providerName].certSecretRef.set
        THEN ReadOutcomes(ctx) ELSE {NotRead}

\* The handler's event as it is in memory.
HandlerEvent == [hEvent EXCEPT !.metadata = heap[HandlerRef]]

\* The heap after getNotificationParams built a notification.
HeapAfter(params) ==
    IF params.kind = "send"
    THEN [r \in DOMAIN heap \cup {params.metaRef} |->
             IF r = params.metaRef THEN params.notification.val.metadata ELSE heap[r]]
    ELSE heap

Dispatched(alert, params) ==
    [alert |-> alert.name, kind |-> params.kind, reads |-> params.reads]

DispatchNextAbortOnError ==
    /\ hPc = "dispatch"
    /\ hIdx <= Len(hAlerts)
    /\ \E providerRead \in ReadOutcomes(hCtx),
          secretRead \in SecretReads(hAlerts[hIdx], hCtx),
          certRead \in CertReads(hAlerts[hIdx], hCtx) :
          LET alert == hAlerts[hIdx]
              params == getNotificationParams(hFlag, HandlerEvent, alert,
                                              providerRead, secretRead, certRead)
          IN  /\ tasks' = IF params.kind = "send"
                          THEN Append(tasks, NewTask(alert, params))
                          ELSE tasks
              /\ heap' = HeapAfter(params)
              /\ hDisp' = Append(hDisp, Dispatched(alert, params))
              /\ hLog' = IF params.kind = "error"
                         THEN Append(hLog, [alert |-> alert.name, err |-> params.err])
                         ELSE hLog
              /\ hIdx' = IF params.kind = "error" THEN Len(hAlerts) + 1 ELSE hIdx + 1
    /\ UNCHANGED <<hBody, hFlag, hStore, hPc, hEvent, hFetch, hAlerts, hStatus,
                   reqCancelled, hCtx, hCancel, otherVars>>

\* One turn of the dispatch loop: dispatchNotification for the next matched
\* alert, which starts a delivery goroutine, skips, or returns an error that
\* the handler logs.  The reads of the store are made under the handler's
\* context.
DispatchNext ==
    /\ hPc = "dispatch"
    /\ hIdx <= Len(hAlerts)
    /\ \E providerRead \in ReadOutcomes(hCtx),
          secretRead \in SecretReads(hAlerts[hIdx], hCtx),
          certRead \in CertReads(hAlerts[hIdx], hCtx) :
          LET alert == hAlerts[hIdx]
              params == getNotificationParams(hFlag, HandlerEvent, alert,
                                              providerRead, secretRead, certRead)
          IN  /\ tasks' = IF params.kind = "send"
                          THEN Append(tasks, NewTask(alert, params))
                          ELSE tasks
              /\ heap' = HeapAfter(params)
              /\ hDisp' = Append(hDisp, Dispatched(alert, params))
              /\ hLog' = IF params.kind = "error"
                         THEN Append(hLog, [alert |-> alert.name, err |-> params.err])
                         ELSE hLog
    /\ hIdx' = hIdx + 1
    /\ UNCHANGED <<hBody, hFlag, hStore, hPc, hEvent, hFetch, hAlerts, hStatus,
                   reqCancelled, hCtx, hCancel, otherVars>>

WriteAcceptedAfterTasks ==
    /\ hPc = "dispatch"
    /\ hIdx > Len(hAlerts)
    /\ \A i \in 1..Len(tasks) : tasks[i].pc = "done"
    /\ hStatus' = Append(hStatus, StatusAccepted)
    /\ hPc' = "done"
    /\ HandlerReturns
    /\ UNCHANGED <<hBody, hFlag, hStore, hEvent, hFetch, hAlerts, hIdx, hLog,
                   hDisp, heap, hCancel, otherVars>>

\* After the loop the handler writes 202 and returns.
WriteAccepted ==
    /\ hPc = "dispatch"
    /\ hIdx > Len(hAlerts)
    /\ hStatus' = Append(hStatus, StatusAccepted)
    /\ hPc' = "done"
    /\ HandlerReturns
    /\ UNCHANGED <<hBody, hFlag, hStore, hEvent, hFetch, hAlerts, hIdx, hLog,
                   hDisp, heap, hCancel, otherVars>>

\* The client closes the connection: the request's context and the handler's
\* context derived from it are cancelled.  hCancel remembers a cancellation
\* that comes after the first delivery task was started.
ClientCancel ==
    /\ hPc \in {"start", "dispatch"}
    /\ ~reqCancelled
    /\ reqCancelled' = TRUE
    /\ hCtx' = IF hCtx = "live" THEN "cancelled" ELSE hCtx
    /\ tasks' = CancelChildren(tasks)
    /\ hCancel' = IF Len(tasks) >= 1
                  THEN [set |-> TRUE, idx |-> hIdx, spawned |-> Len(tasks)]
                  ELSE NoCancel
    /\ UNCHANGED <<hBody, hFlag, hStore, hPc, hEvent, hFetch, hAlerts, hIdx, hStatus,
                   hLog, hDisp, heap, otherVars>>

\* The 15 s deadline of the handler's context expires.
HandlerTimeout ==
    /\ hPc = "dispatch"
    /\ hCtx = "live"
    /\ hCtx' = "expired"
    /\ tasks' = CancelChildren(tasks)
    /\ UNCHANGED <<hBody, hFlag, hStore, hPc, hEvent, hFetch, hAlerts, hIdx, hStatus,
                   hLog, reqCancelled, hDisp, heap, hCancel, otherVars>>

\* A delivery goroutine starts: it makes its context and calls Post.
TaskStart(i) ==
    /\ tasks[i].pc = "spawned"
    /\ tasks' = [tasks EXCEPT ![i].pc = "posting",
                              ![i].posts = @ + 1,
                              ![i].posted =
                                  Some([tasks[i].event EXCEPT
                                           !.metadata = heap[tasks[i].metaRef]]),
                              ![i].cancelledBy =
                                  IF tasks[i].ctx.parent = "handler" /\ hCtx # "live"
                                  THEN "parent" ELSE "none"]
    /\ UNCHANGED <<hBody, hFlag, hStore, hPc, hEvent, hFetch, hAlerts, hIdx, hStatus,
                   hLog, reqCancelled, hCtx, hDisp, heap, hCancel, otherVars>>

\* The deadline of a delivery task's own context expires during Post.
TaskDeadline(i) ==
    /\ tasks[i].pc = "posting"
    /\ tasks[i].cancelledBy = "none"
    /\ tasks' = [tasks EXCEPT ![i].cancelledBy = "deadline"]
    /\ UNCHANGED <<hBody, hFlag, hStore, hPc, hEvent, hFetch, hAlerts, hIdx, hStatus,
                   hLog, reqCancelled, hCtx, hDisp, heap, hCancel, otherVars>>

\* What the Post of a notifier returns when its delivery fails with err; the
\* CDEvents notifier goes through the end of its own Post.
NotifierPostReturn(type, err) ==
    IF type = "cdevents" THEN CDEventsPostReturn(Some(err)) ELSE Some(err)

TaskPostReturnsRetry(i) ==
    /\ tasks[i].pc = "posting"
    /\ \/ /\ tasks[i].cancelledBy = "none"
          /\ tasks' = [tasks EXCEPT ![i].pc = "done"]
       \/ \E postErr \in PostErrors(tasks[i].token), maskOk \in BOOLEAN :
             LET ret == NotifierPostReturn(tasks[i].sender.type, postErr)
             IN  tasks' = [tasks EXCEPT ![i].pc = "spawned",
                                        ![i].cancelledBy = "none",
                                        ![i].failed = TRUE,
                                        ![i].postErr = ret,
                                        ![i].logged =
                                            IF ret.set
                                            THEN Some(LoggedError(ret.val, tasks[i].token, maskOk))
                                            ELSE None]
    /\ UNCHANGED <<hBody, hFlag, hStore, hPc, hEvent, hFetch, hAlerts, hIdx, hStatus,
                   hLog, reqCancelled, hCtx, hDisp, heap, hCancel, otherVars>>

\* Post returns and the goroutine ends, which releases its context; on an
\* error the goroutine masks the token and logs.  The delivery fails when the
\* context is done, and may fail for other reasons.
TaskPostReturns(i) ==
    /\ tasks[i].pc = "posting"
    /\ \/ /\ tasks[i].cancelledBy = "none"
          /\ tasks' = [tasks EXCEPT ![i].pc = "done"]
       \/ \E postErr \in PostErrors(tasks[i].token), maskOk \in BOOLEAN :
             LET ret == NotifierPostReturn(tasks[i].sender.type, postErr)
             IN  tasks' = [tasks EXCEPT ![i].pc = "done",
                                        ![i].cancelledBy = "none",
                                        ![i].failed = TRUE,
                                        ![i].postErr = ret,
                                        ![i].logged =
                                            IF ret.set
                                            THEN Some(LoggedError(ret.val, tasks[i].token, maskOk))
                                            ELSE None]
    /\ UNCHANGED <<hBody, hFlag, hStore, hPc, hEvent, hFetch, hAlerts, hIdx, hStatus,
                   hLog, reqCancelled, hCtx, hDisp, heap, hCancel, otherVars>>

Next ==
    \/ HandleRequest
    \/ DispatchNext
    \/ WriteAccepted
    \/ ClientCancel
    \/ HandlerTimeout
    \/ \E i \in 1..Len(tasks) : TaskStart(i)
    \/ \E i \in 1..Len(tasks) : TaskDeadline(i)
    \/ \E i \in 1..Len(tasks) : TaskPostReturns(i)

Spec == Init /\ [][Next]_vars

\* ------------------------------------------------------------------------
\* Properties
\* ------------------------------------------------------------------------

\* C1: filterAlertsForEvent never returns an Alert whose Spec.Suspend is true.
C1_NoSuspendedAlertMatches ==
    fDone => \A i \in 1..Len(fResult.alerts) : ~fResult.alerts[i].suspend

\* A suspended alert that matches the event and does not exclude its message
\* was filtered out of a list of which another alert was kept.
C1_Witness ==
    /\ fDone
    /\ ~fResult.panic
    /\ Len(fResult.alerts) >= 1
    /\ \E i \in 1..Len(fAlerts) :
          /\ fAlerts[i].suspend
          /\ FilterOne(fEvent, [fAlerts[i] EXCEPT !.suspend = FALSE], fFetch[i], LiveLabels) = "keep"

\* The matching condition of one source, with the namespace defaulted to
\* the alert's.
SourceAdmits(event, alert, src) ==
    /\ src.kind = event.kind
    /\ (IF src.namespace = "" THEN alert.namespace ELSE src.namespace) = event.namespace
    /\ (src.name = "*" \/ src.name = event.name)
    /\ (alert.severity = "info" \/ alert.severity = event.severity)

\* C2: for an Alert with no matchLabels on its sources,
\* eventMatchesAlertSources is true exactly when some source has the event's
\* kind, namespace (defaulted to the alert's) and name (or "*") and the alert
\* severity is info or the event's; info never excludes, and error does not
\* match an info event.
C2_SourceMatchExact ==
    (sResult # Nil /\ \A j \in 1..Len(sAlert.sources) : sAlert.sources[j].matchLabels.nil)
    => /\ sResult \in {True, False}
       /\ (sResult = True) <=>
             \E j \in 1..Len(sAlert.sources) : SourceAdmits(sEvent, sAlert, sAlert.sources[j])
       /\ (sAlert.severity = "error" /\ sEvent.severity = "info") => sResult = False

\* An info alert matched an error event through a source whose namespace was
\* defaulted to the alert's namespace.
C2_Witness ==
    /\ sResult = True
    /\ sAlert.severity = "info"
    /\ sEvent.severity = "error"
    /\ Len(sAlert.sources) = 1
    /\ sAlert.sources[1].namespace = ""
    /\ sAlert.sources[1].matchLabels.nil

\* C3: messageIsExcluded is true if and only if some entry that compiles
\* matches the message; an entry that does not compile neither excludes nor
\* stops the evaluation of the entries after it.
C3_ExcludedIffValidEntryMatches ==
    xResult # Nil =>
        ((xResult = True) <=>
            \E i \in 1..Len(xList) : Compiles(xList[i]) /\ RegexpMatch(xList[i], xMsg))

\* A matching entry placed after an entry that does not compile excluded.
C3_Witness ==
    /\ xResult = True
    /\ Len(xList) = 2
    /\ ~Compiles(xList[1])
    /\ Compiles(xList[2])
    /\ RegexpMatch(xList[2], xMsg)

\* The number of components in which two receivers differ.
DiffCount(a, b) ==
    (IF a.token # b.token THEN 1 ELSE 0)
    + (IF a.name # b.name THEN 1 ELSE 0)
    + (IF a.namespace # b.namespace THEN 1 ELSE 0)

\* C4 (as stated): two receivers whose (token, name, namespace) differ in at
\* least one component have different webhook paths.
C4_AnyChangeChangesPath ==
    (wpStage = 2 /\ DiffCount(wpA, wpB) >= 1) => wpPathA # wpPathB

\* C4 (amended): two receivers whose (token, name, namespace) differ in
\* exactly one component have different hashed inputs and different paths.
C4_SingleChangeChangesPath ==
    (wpStage = 2 /\ DiffCount(wpA, wpB) = 1) =>
        /\ HashInput(wpA.token, wpA.name, wpA.namespace)
             # HashInput(wpB.token, wpB.name, wpB.namespace)
        /\ wpPathA # wpPathB

C4_Witness ==
    /\ wpStage = 2
    /\ DiffCount(wpA, wpB) = 1
    /\ wpA.namespace # wpB.namespace
    /\ wpPathA # wpPathB

\* Keys that a further cleanupMetadata keeps unchanged.
StableKey(group, key) == HasPrefix(key, group) /\ ~HasPrefix(key, group \o Slash)

\* C5 (as stated): applying cleanupMetadata twice leaves the metadata equal to
\* the result of applying it once.
C5_Idempotent == cmCount = 2 => cmMeta = cmOnce

\* C5 (amended): the second application leaves the once-cleaned metadata
\* unchanged exactly when every once-cleaned key starts with the group but not
\* with the group followed by "/"; every other once-cleaned key is dropped or
\* stripped again.
C5_IdempotentIffStable ==
    cmCount = 2 =>
        ((cmMeta = cmOnce) <=> (\A k \in DOMAIN cmOnce : StableKey(cmGroup, k)))

C5_Witness ==
    /\ cmCount = 2
    /\ cmGroup = <<"g">>
    /\ cmOnce # EmptyMap
    /\ cmMeta = EmptyMap

\* C6: after cleanupMetadata the metadata is exactly the entries whose key
\* starts with "G/" and is not "G/checksum", with "G/" stripped.
ExpectedMetadata(group, meta) ==
    LET kept == {k \in DOMAIN meta : KeepsKeyExact(group, k)}
    IN  [nk \in {TrimPrefix(k, group \o Slash) : k \in kept} |->
            meta[CHOOSE k \in kept : TrimPrefix(k, group \o Slash) = nk]]

C6_ExactGroupKeys == cmCount >= 1 => cmOnce = ExpectedMetadata(cmGroup, cmInput)

\* C7: whenever the Post of a delivery task fails, the error handed to the
\* logger does not contain the provider's token: it is the Post error with
\* every occurrence of the token replaced by the mask, or the masking error.
C7_LoggedErrorHidesToken ==
    \A i \in 1..Len(tasks) :
        (tasks[i].pc = "done" /\ tasks[i].postErr.set) =>
            /\ tasks[i].logged.set
            /\ tasks[i].token # <<>> => ~Contains(tasks[i].logged.val, tasks[i].token)
            /\ \/ tasks[i].logged.val = MaskError
               \/ /\ tasks[i].token # <<>>
                  /\ tasks[i].logged.val = ReplaceAll(tasks[i].postErr.val, tasks[i].token, Mask)
               \/ /\ tasks[i].token = <<>>
                  /\ tasks[i].logged.val = tasks[i].postErr.val

\* A Post error that contains the token was logged masked.
C7_Witness ==
    \E i \in 1..Len(tasks) :
        /\ tasks[i].pc = "done"
        /\ tasks[i].postErr.set
        /\ tasks[i].token = TokenTT
        /\ Contains(tasks[i].postErr.val, tasks[i].token)
        /\ tasks[i].logged.val # MaskError
        /\ Contains(tasks[i].logged.val, Mask)

\* C8: every request gets exactly one response status; it is 400 if and only
\* if the body cannot be read or decoded, and 202 otherwise.
C8_OneStatusPerRequest ==
    /\ Len(hStatus) <= 1
    /\ hPc \in {"done", "panicked"} =>
          /\ Len(hStatus) = 1
          /\ hStatus[1] = (IF hBody.kind \in {"unreadable", "undecodable"}
                           THEN StatusBadRequest ELSE StatusAccepted)

\* C9: once the dispatch loop is over the handler can write 202 and return,
\* whatever the state of the delivery tasks it has started.
C9_ResponseNeverWaits ==
    (hPc = "dispatch" /\ hIdx > Len(hAlerts)) => ENABLED WriteAccepted

\* The response was sent while one delivery task had not started and another
\* was inside Post.
C9_Witness ==
    /\ hPc = "done"
    /\ hStatus = <<StatusAccepted>>
    /\ \E i, j \in 1..Len(tasks) : tasks[i].pc = "spawned" /\ tasks[j].pc = "posting"

\* C10: the context of a delivery task has the Provider's timeout (Spec.Timeout,
\* or 15 s when unset) and is cancelled by nothing but its own deadline: not by
\* the client, nor by the handler's context, nor by the handler returning.
C10_TaskContextIndependent ==
    \A i \in 1..Len(tasks) :
        /\ tasks[i].ctx.timeout =
              (IF ProviderStore[tasks[i].provider].timeout.set
               THEN ProviderStore[tasks[i].provider].timeout.duration
               ELSE 15)
        /\ tasks[i].cancelledBy \in {"none", "deadline"}

\* The handler's context expired and the handler returned, and a Post under
\* a 30 s timeout succeeded afterwards while another was still running.
C10_Witness ==
    /\ hPc = "done"
    /\ hCtx = "expired"
    /\ reqCancelled
    /\ \E i, j \in 1..Len(tasks) :
          /\ tasks[i].pc = "done"
          /\ ~tasks[i].postErr.set
          /\ tasks[i].ctx.timeout = 30
          /\ tasks[j].pc = "posting"
          /\ tasks[j].cancelledBy = "none"
          /\ tasks[j].ctx.timeout = 15

\* The delivery tasks started for the alert of that name.
TasksOf(name) == {i \in 1..Len(tasks) : tasks[i].alert = name}

\* The Provider of the alert exists, is not suspended and yields a notifier
\* when the reads of its secrets succeed.
Deliverable(alert) ==
    LET providerName == <<alert.namespace, alert.providerRef>>
    IN  /\ providerName \in DOMAIN ProviderStore
        /\ ~ProviderStore[providerName].suspend
        /\ createNotifier(alert.namespace, ProviderStore[providerName], TRUE, TRUE).err = ""

\* The outcomes of the reads made for the k-th matched alert.
ReadsOf(k) == {hDisp[k].reads.provider, hDisp[k].reads.secret, hDisp[k].reads.cert}

\* C11: when the client closes the connection after the handler has started
\* at least one delivery task, every matched alert still to be dispatched
\* whose Provider exists, is not suspended and yields a notifier gets its
\* delivery task (alerts denied by the namespace check or hit by an error of
\* the store itself are left aside).
C11_CancelCannotAbortDispatch ==
    (hPc = "done" /\ hCancel.set /\ hCancel.spawned >= 1)
    => \A k \in hCancel.idx..Len(hAlerts) :
          (/\ Deliverable(hAlerts[k])
           /\ ~CrossNamespaceDenied(hFlag, hEvent, hAlerts[k])
           /\ "err" \notin ReadsOf(k))
          => TasksOf(hAlerts[k].name) # {}

\* C12: with noCrossNamespaceRefs set no delivery task is started for an
\* alert of another namespace than the event's object; such an alert gets an
\* access-denied error, its Provider is not read, and no other alert gets
\* that error.
C12_NoCrossNamespaceDispatch ==
    hFlag =>
        /\ \A i \in 1..Len(tasks) : tasks[i].provider[1] = hEvent.namespace
        /\ \A k \in 1..Len(hDisp) :
              hAlerts[k].namespace # hEvent.namespace
              => /\ hDisp[k].kind = "error"
                 /\ hDisp[k].reads = NoReads
                 /\ [alert |-> hAlerts[k].name,
                     err |-> "access denied to cross-namespace sources"]
                       \in {hLog[j] : j \in 1..Len(hLog)}
        /\ \A j \in 1..Len(hLog) :
              hLog[j].err = "access denied to cross-namespace sources"
              => \E k \in 1..Len(hDisp) :
                    /\ hAlerts[k].name = hLog[j].alert
                    /\ hAlerts[k].namespace # hEvent.namespace

\* An alert of namespace n2 whose source names the event's namespace n1 was
\* denied, and the alert of n1 dispatched after it got its task.
C12_Witness ==
    /\ hFlag
    /\ hPc = "done"
    /\ Len(hDisp) = 2
    /\ hAlerts[1].namespace = "n2"
    /\ hAlerts[1].sources[1].namespace = hEvent.namespace
    /\ hDisp[1].kind = "error"
    /\ hAlerts[2].namespace = hEvent.namespace
    /\ TasksOf(hAlerts[2].name) # {}

\* C13: every matched alert is dispatched, and gets its delivery task when
\* its own Provider is deliverable and its own reads succeed, whatever
\* happened to the matched alerts before and after it.
C13_DispatchFailureConfined ==
    hPc = "done" =>
        /\ Len(hDisp) = Len(hAlerts)
        /\ \A k \in 1..Len(hDisp) :
              /\ hDisp[k].alert = hAlerts[k].name
              /\ (/\ Deliverable(hAlerts[k])
                  /\ ~CrossNamespaceDenied(hFlag, hEvent, hAlerts[k])
                  /\ ReadsOf(k) \subseteq {"ok", NotRead})
                 => TasksOf(hAlerts[k].name) # {}

\* The first matched alert failed (no address) and the second one got its
\* delivery task.
C13_Witness ==
    /\ hPc = "done"
    /\ Len(hDisp) = 2
    /\ hDisp[1].kind = "error"
    /\ hDisp[1].reads.provider = "ok"
    /\ hDisp[2].kind = "send"
    /\ TasksOf(hAlerts[2].name) # {}

\* C14: for an alert whose sources have no matchLabels or non-empty ones, the
\* alert matches exactly when some source admits the event and either has no
\* matchLabels or had its object fetched and found carrying all its labels; a
\* failed fetch only makes its source not match.
C14_MatchLabelsDecide ==
    (/\ sResult # Nil
     /\ \A j \in 1..Len(sAlert.sources) :
           sAlert.sources[j].matchLabels.nil \/ sAlert.sources[j].matchLabels.labels # {})
    => /\ sResult \in {True, False}
       /\ (sResult = True) <=>
             \E j \in 1..Len(sAlert.sources) :
                /\ SourceAdmits(sEvent, sAlert, sAlert.sources[j])
                /\ \/ sAlert.sources[j].matchLabels.nil
                   \/ /\ sFetch[j]
                      /\ sAlert.sources[j].matchLabels.labels \subseteq LiveLabels

\* C15 as stated: the CDEvent type and outcome by lower-cased Reason, with
\* testsucceeded among the TaskRunFinished/Success reasons,
\* reconciliationsucceeded giving ServiceDeployed and every other Reason
\* giving IncidentDetected.
C15_ReasonTable ==
    cdDone =>
        LET r == ToLower(cdEvent.reason)
            cd == cdResult.payload
        IN  /\ r = ReasonInstallSucceeded => cd.type = "EnvironmentModified"
            /\ r \in {ReasonUpgradeSucceeded, ReasonRollbackSucceeded, ReasonTestSucceeded}
                  => cd.type = "TaskRunFinished" /\ cd.outcome = "Success"
            /\ r \in {ReasonUpgradeFailed, ReasonRollbackFailed, ReasonDriftDetected}
                  => cd.type = "TaskRunFinished" /\ cd.outcome = "Failure"
            /\ r = ReasonReconciliationSucceeded => cd.type = "ServiceDeployed"
            /\ r \notin (KnownReasons \ {ReasonTestFailed}) => cd.type = "IncidentDetected"

\* C15 amended: as above, except that testsucceeded and testfailed give
\* TestCaseRunFinished (testsucceeded with outcome Success), and that
\* reconciliationsucceeded gives ServiceDeployed in cdevents.go and
\* PipelineRunFinished with outcome Success in the second copy of Post.
C15_ReasonTableAmended ==
    cdDone =>
        LET r == ToLower(cdEvent.reason)
            cd == cdResult.payload
        IN  /\ r = ReasonInstallSucceeded => cd.type = "EnvironmentModified"
            /\ r \in {ReasonUpgradeSucceeded, ReasonRollbackSucceeded}
                  => cd.type = "TaskRunFinished" /\ cd.outcome = "Success"
            /\ r \in {ReasonUpgradeFailed, ReasonRollbackFailed, ReasonDriftDetected}
                  => cd.type = "TaskRunFinished" /\ cd.outcome = "Failure"
            /\ r = ReasonTestSucceeded
                  => cd.type = "TestCaseRunFinished" /\ cd.outcome = "Success"
            /\ r = ReasonTestFailed => cd.type = "TestCaseRunFinished"
            /\ r = ReasonReconciliationSucceeded
                  => IF cdCopy = "cdevents.go"
                     THEN cd.type = "ServiceDeployed"
                     ELSE cd.type = "PipelineRunFinished" /\ cd.outcome = "Success"
            /\ r \notin KnownReasons => cd.type = "IncidentDetected"

\* Post mapped the Reason TestSucceeded, written with capitals.
C15_Witness ==
    /\ cdDone
    /\ cdEvent.reason = Capitals(ReasonTestSucceeded)
    /\ cdEvent.reason # ReasonTestSucceeded
    /\ cdResult.payload.type = "TestCaseRunFinished"

\* C16: for a Reason that is testfailed in any case, the CDEvent that Post
\* builds has the subject outcome Failure.
C16_TestFailedIsFailure ==
    (cdDone /\ ToLower(cdEvent.reason) = ReasonTestFailed)
    => cdResult.payload.outcome = "Failure"

\* C17: no request makes the handler panic, and a handler that has ended has
\* written a response.
C17_HandlerNeverPanics ==
    /\ hPc # "panicked"
    /\ hPc = "done" => Len(hStatus) = 1

\* The alert of the store that has that name.
AlertOf(name) == CHOOSE a \in HandlerAlertPool : a.name = name

\* C18: an alert has at most one delivery task, and only if it is in the match
\* set; a dispatched alert has exactly one when it passes the namespace check,
\* its Provider is read, is not suspended and yields a notifier, and none
\* otherwise; a task calls Post exactly once.
C18_OneTaskPerAlert ==
    /\ \A i \in 1..Len(tasks) :
          /\ TasksOf(tasks[i].alert) = {i}
          /\ \E k \in 1..Len(hDisp) : hAlerts[k].name = tasks[i].alert
          /\ tasks[i].posts = (IF tasks[i].pc = "spawned" THEN 0 ELSE 1)
    /\ \A k \in 1..Len(hDisp) :
          LET alert == hAlerts[k]
              providerName == <<alert.namespace, alert.providerRef>>
              yields ==
                  /\ ~(hFlag /\ alert.namespace # hEvent.namespace)
                  /\ hDisp[k].reads.provider = "ok"
                  /\ ~ProviderStore[providerName].suspend
                  /\ createNotifier(alert.namespace, ProviderStore[providerName],
                                    hDisp[k].reads.secret = "ok",
                                    hDisp[k].reads.cert = "ok").err = ""
          IN  Cardinality(TasksOf(alert.name)) = (IF yields THEN 1 ELSE 0)
    /\ \A a \in {hStore[n] : n \in 1..Len(hStore)} :
          (\A k \in 1..Len(hAlerts) : hAlerts[k] # a) => TasksOf(a.name) = {}

\* An alert with two matching sources got one delivery task, which called
\* Post once and ended, and the alert of a suspended Provider got none.
C18_Witness ==
    /\ hPc = "done"
    /\ Len(hDisp) = 2
    /\ \E k \in 1..2 :
          /\ Len(hAlerts[k].sources) = 2
          /\ \A j \in 1..2 : SourceAdmits(hEvent, hAlerts[k], hAlerts[k].sources[j])
          /\ \E i \in TasksOf(hAlerts[k].name) : tasks[i].pc = "done" /\ tasks[i].posts = 1
    /\ \E k \in 1..2 :
          /\ ProviderStore[<<hAlerts[k].namespace, hAlerts[k].providerRef>>].suspend
          /\ hDisp[k].kind = "skip"
          /\ TasksOf(hAlerts[k].name) = {}

\* The cleaned event with the summary of the alert of that name.
NotificationFor(name) ==
    IF AlertOf(name).summary # ""
    THEN [hEvent EXCEPT !.metadata = MapSet(hEvent.metadata, SummaryKey, AlertOf(name).summary)]
    ELSE hEvent

\* C19: the event a delivery task hands to Post is the cleaned event with the
\* alert's summary set when it is not empty, in a map of its own: the
\* handler's event keeps the cleaned metadata, and no notification shows the
\* summary of another alert.
C19_NotificationIsPrivateCopy ==
    /\ hPc \in {"dispatch", "done"} => heap[HandlerRef] = hEvent.metadata
    /\ \A i \in 1..Len(tasks) :
          /\ tasks[i].metaRef # HandlerRef
          /\ \A j \in 1..Len(tasks) : tasks[j].metaRef = tasks[i].metaRef => j = i
          /\ tasks[i].event = NotificationFor(tasks[i].alert)
          /\ heap[tasks[i].metaRef] = NotificationFor(tasks[i].alert).metadata
          /\ tasks[i].posted.set => tasks[i].posted.val = NotificationFor(tasks[i].alert)

\* An alert with a summary was dispatched first, then an alert without one,
\* and both delivery tasks called Post: the second event has no summary.
C19_Witness ==
    /\ Len(tasks) = 2
    /\ AlertOf(tasks[1].alert).summary # ""
    /\ AlertOf(tasks[2].alert).summary = ""
    /\ tasks[1].posted.set
    /\ tasks[2].posted.set
    /\ SummaryKey \in DOMAIN tasks[1].posted.val.metadata
    /\ SummaryKey \notin DOMAIN tasks[2].posted.val.metadata
    /\ DOMAIN hEvent.metadata # {}

\* C20: Post returns an error exactly when postMessage returned one.
C20_PostReturnsDeliveryError ==
    cdDone => (cdResult.err.set <=> cdPostMessage.set)

====
